---------------------------- MODULE Spec2Model ----------------------------
(***************************************************************************)
(* Wire format of the Transparent Zcash Extension (TZE) types of           *)
(* zebra-chain/src/tze.rs and the STWO-Cairo verifier entry point of       *)
(* zebra-tze-stwo/src/lib.rs.                                              *)
(*                                                                         *)
(* Byte streams are sequences over 0..255.  An in-memory integer is kept   *)
(* as its base-256 numeral, most significant digit first (8 digits for a   *)
(* u64 or i64, 4 for a u32), so that every 64-bit value of the wire format *)
(* is representable and no arithmetic leaves the range of the model        *)
(* checker's integers.  The wire carries integers little-endian.           *)
(***************************************************************************)
EXTENDS Integers, Sequences, FiniteSets, TLC

VARIABLES
    pc,        \* position of the run: "start", "encoded", "tampered", "decoded", "done", ...
    kind,      \* the entity type under test
    value,     \* the in-memory value handed to zcash_serialize
    stream,    \* the bytes on the wire
    craft,     \* what the untrusted byte source did to the stream
    decoded,   \* the result of zcash_deserialize on stream
    reenc,     \* zcash_serialize of the decoded value
    count,     \* SpecFit: number of elements placed in the container
    total,     \* SpecFit: serialized bytes placed in the container
    verdict    \* SpecVerify: the result of verify_stwo_cairo

vars == <<pc, kind, value, stream, craft, decoded, reenc, count, total, verdict>>

----------------------------------------------------------------------------
(* Bounds of the model.                                                    *)

MaxPayloadLen == 2
MaxInputs == 2
MaxOutputs == 2
MaxCut == 3
MaxBatches == 3

----------------------------------------------------------------------------
(* Little-endian byte strings.                                             *)

Zeros(w) == [i \in 1..w |-> 0]

\* The w little-endian bytes of n, for 0 <= n < 2^31.
LE(n, w) == [i \in 1..w |-> IF i <= 4 THEN (n \div (256 ^ (i - 1))) % 256 ELSE 0]

Reverse(s) == [i \in 1..Len(s) |-> s[Len(s) + 1 - i]]

\* u64::to_le_bytes / from_le_bytes and their 32-bit forms, on numerals.
to_le_bytes(v) == Reverse(v)
from_le_bytes(b) == Reverse(b)

\* The numerals of an integer 0 <= n < 2^31.
U64(n) == from_le_bytes(LE(n, 8))
U32(n) == from_le_bytes(LE(n, 4))

AllZero(b, from, to) == \A i \in from..to : b[i] = 0

\* b (little-endian) denotes a number below 2^31.
FitsInt(b) ==
    /\ AllZero(b, 5, Len(b))
    /\ (Len(b) >= 4 => b[4] < 128)

RECURSIVE ToInt(_)
ToInt(b) == IF b = <<>> THEN 0 ELSE b[1] + 256 * ToInt(Tail(b))

\* b (little-endian, unsigned) > n, for an integer n of the model.
GtInt(b, n) == ~FitsInt(b) \/ ToInt(b) > n

\* The same on numerals: v > n, and v as an integer when it fits.
U64Gt(v, n) == GtInt(to_le_bytes(v), n)
U64ToInt(v) == ToInt(to_le_bytes(v))

Take(s, n) == SubSeq(s, 1, n)
Drop(s, n) == SubSeq(s, n + 1, Len(s))

----------------------------------------------------------------------------
(* Decode results: the value and the reader's position, or the error and   *)
(* the reader's position when it was raised.                               *)

NoValue == <<>>

\* alloc: the element slots the decoder has reserved from count prefixes.
Ok(v, rest) ==
    [ok |-> TRUE, err |-> "", msg |-> "", val |-> v, rest |-> rest, alloc |-> 0]
Err(e, m, rest) ==
    [ok |-> FALSE, err |-> e, msg |-> m, val |-> NoValue, rest |-> rest, alloc |-> 0]

\* The ? operator: the error of a sub-decode, propagated unchanged.
Propagate(r) == [r EXCEPT !.val = NoValue]

Reserved(r, n) == [r EXCEPT !.alloc = @ + n]

\* let x = r?; K(x)
Try(r, K(_)) == IF r.ok THEN K(r) ELSE Propagate(r)

\* io::Read::read_exact of n bytes through byteorder / ReadZcashExt.
ReadExact(s, n) ==
    IF Len(s) < n THEN Err("Io", "UnexpectedEof", s)
    ELSE Ok(Take(s, n), Drop(s, n))

----------------------------------------------------------------------------
(* serialization::CompactSize64 (section 4.1).                             *)

CompactSize64_zcash_serialize(v) ==
    LET le == to_le_bytes(v) IN
    IF AllZero(le, 2, 8) /\ le[1] < 253 THEN <<le[1]>>
    ELSE IF AllZero(le, 3, 8) THEN <<253>> \o Take(le, 2)
    ELSE IF AllZero(le, 5, 8) THEN <<254>> \o Take(le, 4)
    ELSE <<255>> \o le

\* The value field of a w-byte length class, which must not fit a shorter class.
CompactSize64_field(s, w) ==
    IF Len(s) < 1 + w THEN Err("Parse", "truncated CompactSize", s)
    ELSE IF \/ (w = 2 /\ s[3] = 0 /\ s[2] < 253)
            \/ (w = 4 /\ AllZero(s, 4, 5))
            \/ (w = 8 /\ AllZero(s, 6, 9))
    THEN Err("Parse", "non-canonical CompactSize", s)
    ELSE Ok(from_le_bytes(SubSeq(s, 2, 1 + w) \o Zeros(8 - w)), Drop(s, 1 + w))

CompactSize64_zcash_deserialize(s) ==
    IF s = <<>> THEN Err("Io", "UnexpectedEof", s)
    ELSE IF s[1] < 253 THEN Ok(U64(s[1]), Tail(s))
    ELSE IF s[1] = 253 THEN CompactSize64_field(s, 2)
    ELSE IF s[1] = 254 THEN CompactSize64_field(s, 4)
    ELSE CompactSize64_field(s, 8)

----------------------------------------------------------------------------
(* serialization::zcash_serialize_bytes and Vec<u8> (section 4.2).         *)

zcash_serialize_bytes(bytes) ==
    CompactSize64_zcash_serialize(U64(Len(bytes))) \o bytes

VecU8_zcash_deserialize(s) ==
    Try(CompactSize64_zcash_deserialize(s), LAMBDA n :
        IF U64Gt(n.val, Len(n.rest)) THEN Err("Io", "UnexpectedEof", n.rest)
        ELSE Ok(Take(n.rest, U64ToInt(n.val)), Drop(n.rest, U64ToInt(n.val))))

----------------------------------------------------------------------------
(* tze::Data.                                                              *)

Data(id, mode, payload) == [extension_id |-> id, mode |-> mode, payload |-> payload]

payload_is_empty(d) == d.payload = <<>>

\* Mutant: tze_mode written before tze_id.
Data_zcash_serialize_ModeFirst(d) ==
    CompactSize64_zcash_serialize(d.mode)
        \o CompactSize64_zcash_serialize(d.extension_id)
        \o zcash_serialize_bytes(d.payload)

Data_zcash_serialize(d) ==
    CompactSize64_zcash_serialize(d.extension_id)
        \o CompactSize64_zcash_serialize(d.mode)
        \o zcash_serialize_bytes(d.payload)

\* A CompactSize reader without the minimality check.
CompactSize64_lenient(s) ==
    LET w == IF s = <<>> \/ s[1] < 253 THEN 0
             ELSE IF s[1] = 253 THEN 2 ELSE IF s[1] = 254 THEN 4 ELSE 8 IN
    IF s = <<>> THEN Err("Io", "UnexpectedEof", s)
    ELSE IF w = 0 THEN Ok(U64(s[1]), Tail(s))
    ELSE IF Len(s) < 1 + w THEN Err("Parse", "truncated CompactSize", s)
    ELSE Ok(from_le_bytes(SubSeq(s, 2, 1 + w) \o Zeros(8 - w)), Drop(s, 1 + w))

\* Mutant: the three varints of a Data read without the minimality check.
Data_zcash_deserialize_Lenient(s) ==
    Try(CompactSize64_lenient(s), LAMBDA extension_id :
    Try(CompactSize64_lenient(extension_id.rest), LAMBDA mode :
    Try(CompactSize64_lenient(mode.rest), LAMBDA n :
        IF U64Gt(n.val, Len(n.rest)) THEN Err("Io", "UnexpectedEof", n.rest)
        ELSE Ok(Data(extension_id.val, mode.val, Take(n.rest, U64ToInt(n.val))),
                Drop(n.rest, U64ToInt(n.val))))))

\* Mutant: the payload read with read instead of read_exact, so that a short
\* stream yields a short payload.
Data_zcash_deserialize_ShortRead(s) ==
    Try(CompactSize64_zcash_deserialize(s), LAMBDA extension_id :
    Try(CompactSize64_zcash_deserialize(extension_id.rest), LAMBDA mode :
    Try(CompactSize64_zcash_deserialize(mode.rest), LAMBDA n :
        IF U64Gt(n.val, Len(n.rest))
        THEN Ok(Data(extension_id.val, mode.val, n.rest), <<>>)
        ELSE Ok(Data(extension_id.val, mode.val, Take(n.rest, U64ToInt(n.val))),
                Drop(n.rest, U64ToInt(n.val))))))

Data_zcash_deserialize(s) ==
    Try(CompactSize64_zcash_deserialize(s), LAMBDA extension_id :
    Try(CompactSize64_zcash_deserialize(extension_id.rest), LAMBDA mode :
    Try(VecU8_zcash_deserialize(mode.rest), LAMBDA payload :
        Ok(Data(extension_id.val, mode.val, payload.val), payload.rest))))

----------------------------------------------------------------------------
(* block::MAX_BLOCK_BYTES and the minimal sizes behind the bounds.         *)

MAX_BLOCK_BYTES == 2000000

MIN_TZE_DATA_SIZE == 3

\* Mutant: the output index counted as 8 bytes.
MIN_TZE_INPUT_SIZE_WideIndex == 32 + 8 + MIN_TZE_DATA_SIZE

MIN_TZE_INPUT_SIZE == 32 + 4 + MIN_TZE_DATA_SIZE

MIN_TZE_OUTPUT_SIZE == 8 + MIN_TZE_DATA_SIZE

----------------------------------------------------------------------------
(* tze::OutPoint.                                                          *)

OutPoint(hash, index) == [hash |-> hash, index |-> index]

OutPoint_zcash_serialize(o) == o.hash \o to_le_bytes(o.index)

OutPoint_zcash_deserialize(s) ==
    Try(ReadExact(s, 32), LAMBDA hash :
    Try(ReadExact(hash.rest, 4), LAMBDA index :
        Ok(OutPoint(hash.val, from_le_bytes(index.val)), index.rest)))

----------------------------------------------------------------------------
(* tze::TzeIn.                                                             *)

TzeIn(prevout, witness) == [prevout |-> prevout, witness |-> witness]

\* Mutant: the witness written before the prevout.
TzeIn_zcash_serialize_WitnessFirst(i) ==
    Data_zcash_serialize(i.witness) \o OutPoint_zcash_serialize(i.prevout)

TzeIn_zcash_serialize(i) ==
    OutPoint_zcash_serialize(i.prevout) \o Data_zcash_serialize(i.witness)

TzeIn_zcash_deserialize(s) ==
    Try(OutPoint_zcash_deserialize(s), LAMBDA prevout :
    Try(Data_zcash_deserialize(prevout.rest), LAMBDA witness :
        Ok(TzeIn(prevout.val, witness.val), witness.rest)))

----------------------------------------------------------------------------
(* amount::Amount<NonNegative>, built from the i64 read off the wire       *)
(* (8 little-endian bytes, two's complement).                              *)

IsNegativeI64(v) == v[1] >= 128

Amount_try_from(v) == IF IsNegativeI64(v) THEN [ok |-> FALSE, val |-> NoValue] ELSE [ok |-> TRUE, val |-> v]

\* Result::map_err(|_| e)?, at reader position s.
MapErr(r, e, m, s) == IF r.ok THEN Ok(r.val, s) ELSE Err(e, m, s)

----------------------------------------------------------------------------
(* tze::TzeOut.                                                            *)

TzeOut(v, precondition) == [value |-> v, precondition |-> precondition]

TzeOut_zcash_serialize(o) ==
    to_le_bytes(o.value) \o Data_zcash_serialize(o.precondition)

\* Mutant: the value taken as read, without Amount::try_from.
TzeOut_zcash_deserialize_Unchecked(s) ==
    Try(ReadExact(s, 8), LAMBDA raw :
    Try(Data_zcash_deserialize(raw.rest), LAMBDA precondition :
        Ok(TzeOut(from_le_bytes(raw.val), precondition.val), precondition.rest)))

TzeOut_zcash_deserialize(s) ==
    Try(ReadExact(s, 8), LAMBDA raw :
    Try(MapErr(Amount_try_from(from_le_bytes(raw.val)),
               "Parse", "invalid non-negative TZE value", raw.rest), LAMBDA v :
    Try(Data_zcash_deserialize(v.rest), LAMBDA precondition :
        Ok(TzeOut(v.val, precondition.val), precondition.rest))))

----------------------------------------------------------------------------
(* TrustedPreallocate.                                                     *)

\* Mutant: the bound of TzeIn derived from the minimal size of a TzeOut.
TzeIn_max_allocation_OutputSize == MAX_BLOCK_BYTES \div MIN_TZE_OUTPUT_SIZE

TzeIn_max_allocation == MAX_BLOCK_BYTES \div MIN_TZE_INPUT_SIZE

TzeOut_max_allocation == MAX_BLOCK_BYTES \div MIN_TZE_OUTPUT_SIZE

Bundle_max_allocation == 1

max_allocation(T) ==
    IF T = "TzeIn" THEN TzeIn_max_allocation
    ELSE IF T = "TzeOut" THEN TzeOut_max_allocation
    ELSE Bundle_max_allocation

----------------------------------------------------------------------------
(* Vec<T> for T: TrustedPreallocate (section 4.4).                         *)

Elem_zcash_serialize(T, e) ==
    IF T = "TzeIn" THEN TzeIn_zcash_serialize(e) ELSE TzeOut_zcash_serialize(e)

Elem_zcash_deserialize(T, s) ==
    IF T = "TzeIn" THEN TzeIn_zcash_deserialize(s) ELSE TzeOut_zcash_deserialize(s)

RECURSIVE Elems_zcash_serialize(_, _)
Elems_zcash_serialize(T, v) ==
    IF v = <<>> THEN <<>>
    ELSE Elem_zcash_serialize(T, Head(v)) \o Elems_zcash_serialize(T, Tail(v))

Vec_zcash_serialize(T, v) ==
    CompactSize64_zcash_serialize(U64(Len(v))) \o Elems_zcash_serialize(T, v)

\* Decodes exactly n elements, stopping at the first one that fails.
RECURSIVE zcash_deserialize_external_count(_, _, _, _)
zcash_deserialize_external_count(T, n, s, acc) ==
    IF n = 0 THEN Ok(acc, s)
    ELSE Try(Elem_zcash_deserialize(T, s), LAMBDA e :
             zcash_deserialize_external_count(T, n - 1, e.rest, Append(acc, e.val)))

Vec_zcash_deserialize(T, s) ==
    Try(CompactSize64_zcash_deserialize(s), LAMBDA len :
        IF U64Gt(len.val, max_allocation(T))
        THEN Err("DisallowedVectorLength", "Vector longer than max_allocation", len.rest)
        ELSE Reserved(zcash_deserialize_external_count(T, U64ToInt(len.val), len.rest, <<>>),
                      U64ToInt(len.val)))

----------------------------------------------------------------------------
(* tze::Bundle.                                                            *)

Bundle(inputs, outputs) == [inputs |-> inputs, outputs |-> outputs]

Bundle_default == Bundle(<<>>, <<>>)

empty_bundle == Bundle_default

\* Mutant: the outputs are not written.
Bundle_zcash_serialize_InputsOnly(b) == Vec_zcash_serialize("TzeIn", b.inputs)

Bundle_zcash_serialize(b) ==
    Vec_zcash_serialize("TzeIn", b.inputs) \o Vec_zcash_serialize("TzeOut", b.outputs)

Bundle_zcash_deserialize(s) ==
    Try(Vec_zcash_deserialize("TzeIn", s), LAMBDA inputs :
        Reserved(Try(Vec_zcash_deserialize("TzeOut", inputs.rest), LAMBDA outputs :
                     Reserved(Ok(Bundle(inputs.val, outputs.val), outputs.rest),
                              outputs.alloc)),
                 inputs.alloc))

----------------------------------------------------------------------------
(* Dispatch on the entity type under test.                                 *)

zcash_serialize(T, v) ==
    CASE T = "Data" -> Data_zcash_serialize(v)
      [] T = "OutPoint" -> OutPoint_zcash_serialize(v)
      [] T = "TzeIn" -> TzeIn_zcash_serialize(v)
      [] T = "TzeOut" -> TzeOut_zcash_serialize(v)
      [] T = "Bundle" -> Bundle_zcash_serialize(v)

zcash_deserialize(T, s) ==
    CASE T = "Data" -> Data_zcash_deserialize(s)
      [] T = "OutPoint" -> OutPoint_zcash_deserialize(s)
      [] T = "TzeIn" -> TzeIn_zcash_deserialize(s)
      [] T = "TzeOut" -> TzeOut_zcash_deserialize(s)
      [] T = "Bundle" -> Bundle_zcash_deserialize(s)

----------------------------------------------------------------------------
(* zebra-tze-stwo: the identifiers of the STWO-Cairo extension.            *)

STWO_CAIRO_EXTENSION_ID == 1398036303

STWO_CAIRO_SUPPORTED_MODES == {0}

\* STWO_CAIRO_SUPPORTED_MODES.contains(&mode), mode a u64 numeral.
SupportedMode(mode) == \E m \in STWO_CAIRO_SUPPORTED_MODES : mode = U64(m)

extract_proof_bytes(precondition, witness) ==
    IF precondition.payload # <<>>
    THEN [ok |-> TRUE, with_pedersen |-> precondition.payload[1] # 0,
          proof_bytes |-> witness.payload]
    ELSE IF witness.payload # <<>>
    THEN [ok |-> TRUE, with_pedersen |-> witness.payload[1] # 0,
          proof_bytes |-> Tail(witness.payload)]
    ELSE [ok |-> FALSE, with_pedersen |-> FALSE, proof_bytes |-> <<>>]

\* std::str::from_utf8, exact on texts whose bytes are below 128 (ASCII) or
\* 0xFF (which occurs in no UTF-8 text), the bytes of VerifyBytes.
from_utf8_ok(bytes) == \A i \in 1..Len(bytes) : bytes[i] < 128

\* serde_json::from_str::<CairoProof>: a CairoProof is a JSON object, so the
\* text has to open with '{' after JSON whitespace.
OpensJsonObject(bytes) ==
    \E i \in 1..Len(bytes) :
        /\ bytes[i] = 123
        /\ \A j \in 1..(i - 1) : bytes[j] \in {9, 10, 13, 32}

\* What serde_json and verify_cairo may answer on a text that opens an object.
ProofOutcomes == {"InvalidProof", "VerificationFailed", "Ok"}

\* verify_stwo_cairo; lib is the answer of the external parser and verifier,
\* consulted only for a UTF-8 text that opens a JSON object.
verify_stwo_cairo(extension_id, mode, precondition, witness, lib) ==
    IF \/ ~SupportedMode(mode)
       \/ ~SupportedMode(precondition.mode)
       \/ ~SupportedMode(witness.mode)
    THEN "UnsupportedMode"
    ELSE LET extracted == extract_proof_bytes(precondition, witness) IN
         IF ~extracted.ok THEN "InvalidPrecondition"
         ELSE IF ~from_utf8_ok(extracted.proof_bytes) THEN "InvalidWitnessEncoding"
         ELSE IF ~OpensJsonObject(extracted.proof_bytes) THEN "InvalidProof"
         ELSE lib

----------------------------------------------------------------------------
(* The in-memory values the checks range over.                             *)

Kinds == {"Data", "OutPoint", "TzeIn", "TzeOut", "Bundle"}

SeqsUpTo(S, n) == UNION {[1..k -> S] : k \in 0..n}

PayloadBytes == {1, 253}

Payloads == SeqsUpTo(PayloadBytes, MaxPayloadLen)

\* One identifier per CompactSize length class and its edges: 0, 252, 253,
\* "STWO", 2^32.
ExtensionIds ==
    {U64(0), U64(252), U64(253), U64(STWO_CAIRO_EXTENSION_ID), <<0, 0, 0, 1, 0, 0, 0, 0>>}

Modes == {U64(0), U64(65536)}

DataValues == {Data(id, m, p) : id \in ExtensionIds, m \in Modes, p \in Payloads}

Hashes == {Zeros(32), [i \in 1..32 |-> i], [i \in 1..32 |-> 255]}

Indexes == {U32(0), <<1, 2, 3, 4>>, <<255, 255, 255, 255>>}

OutPointValues == {OutPoint(h, i) : h \in Hashes, i \in Indexes}

\* 0, 1 and MAX_MONEY (2,100,000,000,000,000 zatoshis).
Amounts == {U64(0), U64(1), <<0, 7, 117, 240, 90, 7, 64, 0>>}

\* The input of the concrete scenario of section 8.
ScenarioTzeIn ==
    TzeIn(OutPoint(Zeros(32), U32(0)), Data(U64(STWO_CAIRO_EXTENSION_ID), U64(0), <<1>>))

ElemData == {Data(id, U64(0), p) : id \in {U64(0), U64(STWO_CAIRO_EXTENSION_ID)},
                                   p \in {<<>>, <<1>>}}

TzeInValues ==
    {TzeIn(o, d) : o \in OutPointValues, d \in ElemData}
        \cup {TzeIn(OutPoint(Zeros(32), U32(0)), d) : d \in DataValues}

TzeOutValues ==
    {TzeOut(a, d) : a \in Amounts, d \in ElemData}
        \cup {TzeOut(U64(0), d) : d \in DataValues}

BundleIns ==
    {ScenarioTzeIn,
     TzeIn(OutPoint([i \in 1..32 |-> 255], <<1, 2, 3, 4>>), Data(U64(253), U64(0), <<>>))}

BundleOuts ==
    {TzeOut(U64(0), Data(U64(0), U64(0), <<>>)),
     TzeOut(U64(1), Data(U64(STWO_CAIRO_EXTENSION_ID), U64(0), <<1, 253>>))}

BundleValues ==
    {Bundle(i, o) : i \in SeqsUpTo(BundleIns, MaxInputs), o \in SeqsUpTo(BundleOuts, MaxOutputs)}

Values(T) ==
    CASE T = "Data" -> DataValues
      [] T = "OutPoint" -> OutPointValues
      [] T = "TzeIn" -> TzeInValues
      [] T = "TzeOut" -> TzeOutValues
      [] T = "Bundle" -> BundleValues

----------------------------------------------------------------------------
(* The untrusted byte source: what a peer may put on the wire in place of  *)
(* the canonical encoding of a value.                                      *)

NoCraft == [how |-> "none", field |-> "", arg |-> <<>>]

VarintFields == {"extension_id", "mode", "payload_len", "input_count", "output_count"}

CountFields == {"payload_len", "input_count", "output_count"}

\* v written in the w-byte length class (w = 2, 4, 8), whatever its size.
WideCompactSize(v, w) ==
    (IF w = 2 THEN <<253>> ELSE IF w = 4 THEN <<254>> ELSE <<255>>)
        \o Take(to_le_bytes(v), w)

\* v fits w bytes and its canonical form is shorter than 1 + w bytes.
CanWiden(v, w) ==
    /\ AllZero(to_le_bytes(v), w + 1, 8)
    /\ Len(CompactSize64_zcash_serialize(v)) < 1 + w

\* The varint of field f holding v, under the peer's choice c.
WireVarint(v, f, c) ==
    IF c.field # f THEN CompactSize64_zcash_serialize(v)
    ELSE IF c.how = "pad" /\ CanWiden(v, c.arg) THEN WideCompactSize(v, c.arg)
    ELSE IF c.how = "forge" THEN CompactSize64_zcash_serialize(c.arg)
    ELSE CompactSize64_zcash_serialize(v)

WireData(d, c) ==
    WireVarint(d.extension_id, "extension_id", c)
        \o WireVarint(d.mode, "mode", c)
        \o WireVarint(U64(Len(d.payload)), "payload_len", c)
        \o d.payload

WireElem(T, e, c) ==
    IF T = "TzeIn" THEN OutPoint_zcash_serialize(e.prevout) \o WireData(e.witness, c)
    ELSE to_le_bytes(e.value) \o WireData(e.precondition, c)

RECURSIVE WireElems(_, _, _)
WireElems(T, v, c) ==
    IF v = <<>> THEN <<>> ELSE WireElem(T, Head(v), c) \o WireElems(T, Tail(v), c)

Wire(T, v, c) ==
    CASE T = "Data" -> WireData(v, c)
      [] T = "OutPoint" -> OutPoint_zcash_serialize(v)
      [] T = "TzeIn" -> WireElem("TzeIn", v, c)
      [] T = "TzeOut" -> WireElem("TzeOut", v, c)
      [] T = "Bundle" ->
            WireVarint(U64(Len(v.inputs)), "input_count", c)
                \o WireElems("TzeIn", v.inputs, c)
                \o WireVarint(U64(Len(v.outputs)), "output_count", c)
                \o WireElems("TzeOut", v.outputs, c)

\* The counts a peer forges: small ones, each preallocation bound and its
\* successor, 2^32 and u64::MAX.
ForgedCounts ==
    {U64(0), U64(1), U64(3), U64(252), U64(65536),
     U64(MAX_BLOCK_BYTES \div 39), U64((MAX_BLOCK_BYTES \div 39) + 1),
     U64(MAX_BLOCK_BYTES \div 11), U64((MAX_BLOCK_BYTES \div 11) + 1),
     <<0, 0, 0, 1, 0, 0, 0, 0>>, [i \in 1..8 |-> 255]}

\* -1 and i64::MIN.
NegativeAmounts == {[i \in 1..8 |-> 255], <<128, 0, 0, 0, 0, 0, 0, 0>>}

TrailingBytes == {0, 255}

----------------------------------------------------------------------------
(* Spec: a value is serialized; the bytes reach the decoder as written or  *)
(* as the peer rewrote them; the decoded value is serialized again.        *)

Init ==
    /\ pc = "start"
    /\ kind \in Kinds
    /\ value \in Values(kind)
    /\ stream = <<>>
    /\ craft = NoCraft
    /\ decoded = Err("", "", <<>>)
    /\ reenc = <<>>
    /\ count = 0
    /\ total = 0
    /\ verdict = ""

Serialize ==
    /\ pc = "start"
    /\ stream' = zcash_serialize(kind, value)
    /\ pc' = "encoded"
    /\ UNCHANGED <<kind, value, craft, decoded, reenc, count, total, verdict>>

Tampered(c, s) ==
    /\ pc = "encoded"
    /\ s # stream
    /\ stream' = s
    /\ craft' = c
    /\ pc' = "tampered"
    /\ UNCHANGED <<kind, value, decoded, reenc, count, total, verdict>>

PadVarint ==
    \E f \in VarintFields, w \in {2, 4, 8} :
        LET c == [how |-> "pad", field |-> f, arg |-> w] IN
        Tampered(c, Wire(kind, value, c))

ForgeCount ==
    \E f \in CountFields, n \in ForgedCounts :
        LET c == [how |-> "forge", field |-> f, arg |-> n] IN
        Tampered(c, Wire(kind, value, c))

Truncate ==
    \E j \in 1..MaxCut :
        /\ j <= Len(stream)
        /\ Tampered([how |-> "cut", field |-> "", arg |-> j], Take(stream, Len(stream) - j))

NegateValue ==
    \E a \in NegativeAmounts :
        /\ kind = "TzeOut"
        /\ Tampered([how |-> "negative", field |-> "value", arg |-> a],
                    to_le_bytes(a) \o Drop(stream, 8))

AppendTrailing ==
    \E b \in TrailingBytes :
        Tampered([how |-> "trailing", field |-> "", arg |-> b], Append(stream, b))

Deserialize ==
    /\ pc \in {"encoded", "tampered"}
    /\ decoded' = zcash_deserialize(kind, stream)
    /\ pc' = "decoded"
    /\ UNCHANGED <<kind, value, stream, craft, reenc, count, total, verdict>>

Reserialize ==
    /\ pc = "decoded"
    /\ decoded.ok
    /\ reenc' = zcash_serialize(kind, decoded.val)
    /\ pc' = "done"
    /\ UNCHANGED <<kind, value, stream, craft, decoded, count, total, verdict>>

Next ==
    \/ Serialize
    \/ PadVarint
    \/ ForgeCount
    \/ Truncate
    \/ NegateValue
    \/ AppendTrailing
    \/ Deserialize
    \/ Reserialize

Spec == Init /\ [][Next]_vars

----------------------------------------------------------------------------
(* Properties of Spec.                                                     *)

Untouched == craft.how = "none"

\* C1: round trip. Decoding the bytes zcash_serialize wrote for a Data,
\* OutPoint, TzeIn, TzeOut or Bundle succeeds, consumes all of them and yields
\* the value that was serialized, every field and the order of inputs and
\* outputs included.
C1_RoundTrip ==
    (pc = "decoded" /\ Untouched) =>
        /\ decoded.ok
        /\ decoded.val = value
        /\ decoded.rest = <<>>

C1_Witness ==
    /\ pc = "decoded"
    /\ Untouched
    /\ kind = "Bundle"
    /\ Len(value.inputs) = 2
    /\ value.inputs[1] # value.inputs[2]
    /\ Len(value.outputs) = 2
    /\ decoded.ok

\* C3: a TzeOut whose value field is negative fails to decode with the Parse
\* error of tze.rs, not an I/O or CompactSize error, with the reader just past
\* the 8 value bytes (the precondition unread); a TzeOut of value 0 decodes to
\* value 0.
C3_NonNegative ==
    (pc = "decoded" /\ kind = "TzeOut") =>
        /\ craft.how = "negative" =>
              /\ ~decoded.ok
              /\ decoded.err = "Parse"
              /\ decoded.msg = "invalid non-negative TZE value"
              /\ decoded.rest = Drop(stream, 8)
        /\ (Untouched /\ value.value = U64(0)) =>
              /\ decoded.ok
              /\ decoded.val.value = U64(0)

C3_Witness ==
    /\ pc = "decoded"
    /\ kind = "TzeOut"
    /\ craft.how = "negative"
    /\ craft.arg = [i \in 1..8 |-> 255]
    /\ Take(stream, 8) = [i \in 1..8 |-> 255]
    /\ ~decoded.ok

\* The payload bytes of the Data under test that are on the wire when its
\* declared payload_len exceeds them, and whether that is the case.
PayloadCutShort ==
    \/ craft.how = "cut" /\ craft.arg <= Len(value.payload)
    \/ craft.how = "forge" /\ craft.field = "payload_len"
           /\ U64Gt(craft.arg, Len(value.payload))

PayloadOnWire ==
    IF craft.how = "cut" THEN Take(value.payload, Len(value.payload) - craft.arg)
    ELSE value.payload

\* C4: a Data whose declared payload_len exceeds the bytes left in the stream
\* fails to decode with UnexpectedEof and no other error, and the reader is
\* left at the first payload byte.
C4_Truncation ==
    (pc = "decoded" /\ kind = "Data" /\ PayloadCutShort) =>
        /\ ~decoded.ok
        /\ decoded.err = "Io"
        /\ decoded.msg = "UnexpectedEof"
        /\ decoded.rest = PayloadOnWire

C4_Witness ==
    /\ pc = "decoded"
    /\ kind = "Data"
    /\ craft.how = "cut"
    /\ craft.arg = 1
    /\ Len(value.payload) = 2
    /\ decoded.rest = Take(value.payload, 1)

\* The wire form of the input of the concrete scenario: 32 zero bytes, index
\* 0, "STWO" in the 4-byte length class (0xFE 4F 57 54 53), mode 0, length 1,
\* payload 1.
ScenarioBytes ==
    Zeros(32) \o <<0, 0, 0, 0>> \o <<254, 79, 87, 84, 83>> \o <<0>> \o <<1>> \o <<1>>

\* C5 as stated: the scenario's TzeIn serializes to 40 bytes.
C5_Original ==
    (pc = "encoded" /\ kind = "TzeIn" /\ value = ScenarioTzeIn) => Len(stream) = 40

\* C5 as amended: the scenario's TzeIn serializes to exactly
\* 32 + 4 + (5 + 1 + (1 + 1)) = 44 bytes, the identifier 0x5354574F taking a
\* 5-byte CompactSize, and decoding those bytes reproduces the structure.
C5_Scenario ==
    (kind = "TzeIn" /\ value = ScenarioTzeIn /\ Untouched) =>
        /\ pc = "encoded" => (Len(stream) = 44 /\ stream = ScenarioBytes)
        /\ pc = "decoded" => (decoded.ok /\ decoded.val = ScenarioTzeIn)

C5_Witness ==
    /\ pc = "decoded"
    /\ kind = "TzeIn"
    /\ value = ScenarioTzeIn
    /\ Untouched
    /\ Len(stream) = 44
    /\ decoded.ok

\* C6: a stream in which a variable-length integer (extension_id, mode,
\* payload length, input or output count) is written in a longer length class
\* than its value needs fails to decode.
C6_Canonical ==
    (pc = "decoded" /\ craft.how = "pad") => ~decoded.ok

\* The 9-byte form of the value 1.
C6_Witness ==
    /\ pc = "decoded"
    /\ kind = "Data"
    /\ craft.how = "pad"
    /\ craft.field = "payload_len"
    /\ craft.arg = 8
    /\ Len(value.payload) = 1
    /\ SubSeq(stream, 3, 11) = <<255, 1, 0, 0, 0, 0, 0, 0, 0>>
    /\ ~decoded.ok

\* C8: the empty Bundle serializes to the two bytes 0, 0 and they decode to
\* the empty Bundle.
C8_EmptyBundle ==
    (kind = "Bundle" /\ value = empty_bundle /\ Untouched) =>
        /\ pc = "encoded" => stream = <<0, 0>>
        /\ pc = "decoded" => (decoded.ok /\ decoded.val = Bundle_default /\ decoded.rest = <<>>)

C8_Witness ==
    /\ pc = "decoded"
    /\ kind = "Bundle"
    /\ value = empty_bundle
    /\ Untouched
    /\ Len(stream) = 2
    /\ decoded.ok

\* C10: whenever a decode succeeds, serializing the decoded value gives back
\* exactly the bytes the decode consumed.
C10_UniqueEncoding ==
    pc = "done" => reenc \o decoded.rest = stream

\* A rewritten stream that still decodes, to another value than the one the
\* stream was made from.
C10_Witness ==
    /\ pc = "done"
    /\ craft.how = "forge"
    /\ decoded.val # value
    /\ decoded.rest # <<>>

\* The bound the forged count is held against, and the reader's position
\* just past the forged count prefix.
ForgedBound ==
    IF craft.field = "input_count" THEN MAX_BLOCK_BYTES \div 39
    ELSE MAX_BLOCK_BYTES \div 11

AfterForgedCount ==
    Drop(stream,
         (IF craft.field = "output_count"
          THEN Len(Vec_zcash_serialize("TzeIn", value.inputs)) ELSE 0)
             + Len(CompactSize64_zcash_serialize(craft.arg)))

RejectedAtForgedCount ==
    /\ ~decoded.ok
    /\ decoded.err = "DisallowedVectorLength"
    /\ decoded.rest = AfterForgedCount

\* C2: Bundle decode rejects a count prefix with DisallowedVectorLength
\* exactly when the count exceeds MAX_BLOCK_BYTES / 39 (inputs) or
\* MAX_BLOCK_BYTES / 11 (outputs); on that rejection the reader is just past
\* the prefix (no element read) and nothing was reserved for the count.
C2_BoundEnforced ==
    (pc = "decoded" /\ kind = "Bundle" /\ craft.how = "forge"
        /\ craft.field \in {"input_count", "output_count"}) =>
        /\ RejectedAtForgedCount <=> U64Gt(craft.arg, ForgedBound)
        /\ RejectedAtForgedCount =>
              decoded.alloc = (IF craft.field = "output_count" THEN Len(value.inputs) ELSE 0)

\* An input count of (MAX_BLOCK_BYTES / 39) + 1 in front of two inputs.
C2_Witness ==
    /\ pc = "decoded"
    /\ kind = "Bundle"
    /\ craft.how = "forge"
    /\ craft.field = "input_count"
    /\ craft.arg = U64((MAX_BLOCK_BYTES \div 39) + 1)
    /\ Take(stream, 3) = <<253, 83, 200>>
    /\ Len(value.inputs) = 2
    /\ decoded.err = "DisallowedVectorLength"

----------------------------------------------------------------------------
(* SpecFit: elements of one type are placed, in batches of equal elements, *)
(* in a container; count and total are the number of elements and of their *)
(* serialized bytes.                                                       *)

FitKinds == {"Data", "TzeIn", "TzeOut"}

FitData ==
    {Data(U64(0), U64(0), <<>>),
     Data(U64(252), U64(252), <<1>>),
     Data(U64(STWO_CAIRO_EXTENSION_ID), U64(0), <<1>>),
     Data(<<0, 0, 0, 1, 0, 0, 0, 0>>, U64(65536), <<1, 253>>)}

FitElems(T) ==
    CASE T = "Data" -> FitData
      [] T = "TzeIn" -> {TzeIn(OutPoint(Zeros(32), U32(0)), d) : d \in FitData}
      [] T = "TzeOut" -> {TzeOut(U64(1), d) : d \in FitData}

\* The numbers of elements a batch may hold: few, or about as many as
\* MAX_BLOCK_BYTES takes of the smallest element.
BatchSizes(T) ==
    CASE T = "Data" -> {1, 2, (MAX_BLOCK_BYTES \div 3) - 1}
      [] T = "TzeIn" -> {1, 2, (MAX_BLOCK_BYTES \div 39) - 2, MAX_BLOCK_BYTES \div 39}
      [] T = "TzeOut" -> {1, 2, (MAX_BLOCK_BYTES \div 11) - 2, MAX_BLOCK_BYTES \div 11}

InitFit ==
    /\ pc = "filling"
    /\ kind \in FitKinds
    /\ value = NoValue
    /\ stream = <<>>
    /\ craft = [how |-> "batch", field |-> "", arg |-> 0]
    /\ decoded = Err("", "", <<>>)
    /\ reenc = <<>>
    /\ count = 0
    /\ total = 0
    /\ verdict = ""

Place ==
    \E e \in FitElems(kind), k \in BatchSizes(kind) :
        /\ pc = "filling"
        /\ craft.arg < MaxBatches
        /\ value' = e
        /\ stream' = zcash_serialize(kind, e)
        /\ count' = count + k
        /\ total' = total + k * Len(zcash_serialize(kind, e))
        /\ craft' = [craft EXCEPT !.arg = @ + 1]
        /\ UNCHANGED <<pc, kind, decoded, reenc, verdict>>

NextFit == Place

SpecFit == InitFit /\ [][NextFit]_vars

\* C7: a serialized Data takes at least MIN_TZE_DATA_SIZE = 3 bytes, a TzeIn
\* at least MIN_TZE_INPUT_SIZE = 39, a TzeOut at least MIN_TZE_OUTPUT_SIZE =
\* 11; so TzeIn (TzeOut) elements whose encodings fit in MAX_BLOCK_BYTES
\* number at most MAX_BLOCK_BYTES / 39 (MAX_BLOCK_BYTES / 11), which
\* max_allocation() does not reject.
C7_MinSizes ==
    count > 0 =>
        /\ kind = "Data" => Len(stream) >= MIN_TZE_DATA_SIZE /\ Len(stream) >= 3
        /\ kind = "TzeIn" => Len(stream) >= MIN_TZE_INPUT_SIZE /\ Len(stream) >= 39
        /\ kind = "TzeOut" => Len(stream) >= MIN_TZE_OUTPUT_SIZE /\ Len(stream) >= 11
        /\ (kind = "TzeIn" /\ total <= MAX_BLOCK_BYTES) =>
              /\ count <= MAX_BLOCK_BYTES \div 39
              /\ ~U64Gt(U64(count), max_allocation("TzeIn"))
        /\ (kind = "TzeOut" /\ total <= MAX_BLOCK_BYTES) =>
              /\ count <= MAX_BLOCK_BYTES \div 11
              /\ ~U64Gt(U64(count), max_allocation("TzeOut"))

\* MAX_BLOCK_BYTES / 39 inputs of the minimal 39 bytes, which fit.
C7_Witness ==
    /\ kind = "TzeIn"
    /\ Len(stream) = 39
    /\ count = MAX_BLOCK_BYTES \div 39
    /\ total = 39 * count
    /\ total <= MAX_BLOCK_BYTES

----------------------------------------------------------------------------
(* SpecVerify: one call of verify_stwo_cairo.                              *)

VerifyBytes == {0, 1, 255}

VerifyData ==
    {Data(id, m, p) : id \in {U64(STWO_CAIRO_EXTENSION_ID), U64(0)},
                      m \in {U64(0), U64(1)},
                      p \in SeqsUpTo(VerifyBytes, MaxPayloadLen)}

Requests ==
    [extension_id : {U64(STWO_CAIRO_EXTENSION_ID), U64(0)},
     mode : {U64(0), U64(1)},
     precondition : VerifyData,
     witness : VerifyData]

InitVerify ==
    /\ pc = "call"
    /\ kind = "verify"
    /\ value \in Requests
    /\ stream = <<>>
    /\ craft = NoCraft
    /\ decoded = Err("", "", <<>>)
    /\ reenc = <<>>
    /\ count = 0
    /\ total = 0
    /\ verdict = ""

Verify ==
    \E lib \in ProofOutcomes :
        /\ pc = "call"
        /\ verdict' = verify_stwo_cairo(value.extension_id, value.mode,
                                        value.precondition, value.witness, lib)
        /\ pc' = "verified"
        /\ UNCHANGED <<kind, value, stream, craft, decoded, reenc, count, total>>

NextVerify == Verify

SpecVerify == InitVerify /\ [][NextVerify]_vars

\* C9: when the requested extension_id is STWO_CAIRO_EXTENSION_ID and the
\* requested mode is a supported one, verify_stwo_cairo returns Ok(()) for
\* every precondition and witness, empty payloads included.
C9_StubSucceeds ==
    (pc = "verified"
        /\ value.extension_id = U64(STWO_CAIRO_EXTENSION_ID)
        /\ SupportedMode(value.mode)) => verdict = "Ok"

=============================================================================
